---- MODULE Spec2Model ----
(***************************************************************************)
(* A model of the bounded-concurrency file-analysis pipeline of octolens:  *)
(*   - analyzeProjectWithAI, its Semaphore and analyzeFileWithRetry        *)
(*     (packages/core/src/utils/project-reader.ts),                        *)
(*   - collectAndSortFiles, calculateFilePriority and buildDynamicBatches  *)
(*     (packages/core/src/utils/files.ts).                                 *)
(*                                                                         *)
(* The analyze operation is the external call                              *)
(*   analyze(path, name, extension, size) -> Result | empty | Error;       *)
(* its outcome is chosen by the environment.  The analyzer shipped in      *)
(* project-reader.ts (analyzeFileWithAI) only ever yields Result or empty, *)
(* because it converts its own errors into null; the Error outcome is what *)
(* the catch branch of analyzeFileWithRetry is written for.                *)
(***************************************************************************)
EXTENDS Integers, Sequences, FiniteSets, TLC

VARIABLES
  projectTree,        \* the input ProjectNode tree
  options,            \* the options object of the call
  pc,                 \* position of analyzeProjectWithAI
  fileQueue,          \* fileQueue, after collectFiles and sort
  batches,            \* batches built by the inline batch builder
  batchIdx,           \* loop variable i of the batch loop (1-based)
  semaphore,          \* [permits, waiting] of the Semaphore
  task,               \* per file path: the analyzeFileWithRetry call chain
  processedCount,     \* processedCount
  failedCount,        \* failedCount
  analysisResults,    \* analysisResults
  performanceMetrics, \* performanceMetrics
  collected,          \* result of collectAndSortFiles (files.ts)
  inputFiles,         \* argument of buildDynamicBatches (files.ts)
  batchResult,        \* result of buildDynamicBatches (files.ts)
  tracker,            \* a PerformanceTracker, the clock and the objects it
                      \* handed out
  priorities,         \* per file of inputFiles: what the two
                      \* calculateFilePriority functions return
  scanner,            \* an OctoLensScanner and the scanProject() calls on it
  watcher             \* a ProjectWatcher, its timers and its scans

vars == << projectTree, options, pc, fileQueue, batches, batchIdx,
           semaphore, task, processedCount, failedCount, analysisResults,
           performanceMetrics, collected, inputFiles, batchResult,
           tracker, priorities, scanner, watcher >>

(***************************************************************************)
(* Bounds of the model.                                                    *)
(***************************************************************************)
MaxFiles == 3        \* files in a pipeline tree
MaxLimit == 2        \* largest concurrentLimit tried
MaxListLen == 4      \* files in an input of the batch builder
MaxTreeFiles == 3    \* file nodes in a tree given to collectAndSortFiles
MaxCallers == 3      \* callers of a semaphore used on its own
MaxRounds == 2       \* acquire() calls of one such caller
MaxClock == 1        \* milliseconds the clock of a tracker advances
MaxCalls == 3        \* calls on a tracker that return nothing
MaxReturned == 2     \* objects a tracker hands out

(***************************************************************************)
(* Values.  An absent optional number (size, batchSize, maxFileSize) is    *)
(* Undef.  JavaScript's  x || d  takes d when x is undefined or 0.         *)
(***************************************************************************)
Undef == -1

OrDefault(x, d) == IF x = Undef \/ x = 0 THEN d ELSE x

NumOrZero(x) == OrDefault(x, 0)

Truthy(x) == x # Undef /\ x # 0

Min(a, b) == IF a < b THEN a ELSE b

RECURSIVE Pow2(_)
Pow2(n) == IF n = 0 THEN 1 ELSE 2 * Pow2(n - 1)

RECURSIVE SumSizes(_)
SumSizes(s) ==
  IF s = << >> THEN 0 ELSE NumOrZero(Head(s).size) + SumSizes(Tail(s))

SeqsUpTo(S, n) == UNION { [1..k -> S] : k \in 0..n }

(***************************************************************************)
(* ProjectNode.  Files and directories carry the same fields; a file has   *)
(* no children, a directory no size.                                       *)
(***************************************************************************)
FileNode(p, n, e, s) ==
  [type |-> "file", path |-> p, name |-> n, extension |-> e, size |-> s,
   children |-> << >>]

DirNode(p, kids) ==
  [type |-> "directory", path |-> p, name |-> p, extension |-> "",
   size |-> Undef, children |-> kids]

PathOf(i) == <<"f1", "f2", "f3", "f4", "f5", "f6">>[i]

\* kinds[i] = [name, extension, size] of the i-th file in traversal order;
\* files j+1..k sit in a subdirectory, the others directly under the root.
MkTree(kinds, j, k) ==
  LET n == Len(kinds)
      F(i) == FileNode(PathOf(i), kinds[i].name, kinds[i].extension,
                       kinds[i].size)
      pre == [i \in 1..j |-> F(i)]
      sub == [i \in 1..(k - j) |-> F(j + i)]
      post == [i \in 1..(n - k) |-> F(k + i)]
  IN DirNode("root", pre \o << DirNode("src", sub) >> \o post)

Shapes(n) == { <<j, k>> \in (0..n) \X (0..n) : j <= k }

(***************************************************************************)
(* File-type tables.                                                       *)
(***************************************************************************)
\* AI_PROGRAMMING_FILE_TYPES.code of project-reader.ts
AI_CODE_EXTENSIONS ==
  {".js", ".ts", ".jsx", ".tsx", ".mjs", ".cjs", ".vue", ".svelte", ".astro"}

\* FILE_PRIORITY_WEIGHTS of the options module
WEIGHT_CODE_EXTENSIONS ==
  {".js", ".ts", ".jsx", ".tsx", ".vue", ".svelte", ".astro"}

WEIGHT_STYLE_EXTENSIONS == {".css", ".scss", ".less", ".sass"}

WEIGHT_TYPE_EXTENSIONS == {".d.ts"}

\* name.includes(pattern), for the file names the model uses
NameIncludes(name, pattern) ==
  \/ pattern = ".test." /\ name \in {"util.test.ts", "flow.e2e.test.ts"}
  \/ pattern = ".spec." /\ name \in {"util.spec.ts"}
  \/ pattern = ".e2e." /\ name \in {"flow.e2e.ts", "flow.e2e.test.ts"}
  \/ pattern = ".cy." /\ name \in {"flow.cy.ts"}

MAX_FILE_SIZE == 100 * 1024

DEFAULT_MAX_FILE_SIZE == 100 * 1024

SMALL_LIMIT == 10 * 1024

MEDIUM_LIMIT == 50 * 1024

(***************************************************************************)
(* calculateFilePriority, project-reader.ts (the pipeline's own copy).     *)
(***************************************************************************)
PipelinePriority(node) ==
  (IF node.extension \in AI_CODE_EXTENSIONS THEN 100 ELSE 0)
  + (IF Truthy(node.size) /\ node.size < SMALL_LIMIT THEN 50
     ELSE IF Truthy(node.size) /\ node.size < MEDIUM_LIMIT THEN 25
     ELSE 0)
  - (IF NameIncludes(node.name, ".test.") \/ NameIncludes(node.name, ".spec.")
     THEN 20 ELSE 0)

(***************************************************************************)
(* calculateFilePriority, files.ts.  Each table is scanned in order and    *)
(* the scan stops at the first match.                                      *)
(***************************************************************************)
CalculateFilePriority(node) ==
  LET extension == node.extension
      fileSize == NumOrZero(node.size)
  IN (IF extension \in WEIGHT_CODE_EXTENSIONS THEN 100 ELSE 0)
     + (IF extension \in WEIGHT_STYLE_EXTENSIONS THEN 50 ELSE 0)
     + (IF extension \in WEIGHT_TYPE_EXTENSIONS THEN 80 ELSE 0)
     + (IF NameIncludes(node.name, ".test.") THEN -20
        ELSE IF NameIncludes(node.name, ".spec.") THEN -20
        ELSE IF NameIncludes(node.name, ".e2e.") THEN -30
        ELSE IF NameIncludes(node.name, ".cy.") THEN -30
        ELSE 0)
     + (IF fileSize < SMALL_LIMIT THEN 50
        ELSE IF fileSize < MEDIUM_LIMIT THEN 25
        ELSE 0)

(***************************************************************************)
(* Array.prototype.sort((a, b) => key(b) - key(a)): a stable sort, keys    *)
(* descending.  keys[i] is the key of s[i].                                *)
(***************************************************************************)
\* Mutant of SortDescStable: of two elements with equal keys the later one
\* comes first.
SortDescTiesReversed(s, keys) ==
  LET n == Len(s)
      Rank(i) == Cardinality({ j \in 1..n :
                     keys[j] > keys[i] \/ (keys[j] = keys[i] /\ j > i) }) + 1
  IN [r \in 1..n |-> s[CHOOSE i \in 1..n : Rank(i) = r]]

SortDescStable(s, keys) ==
  LET n == Len(s)
      Rank(i) == Cardinality({ j \in 1..n :
                     keys[j] > keys[i] \/ (keys[j] = keys[i] /\ j < i) }) + 1
  IN [r \in 1..n |-> s[CHOOSE i \in 1..n : Rank(i) = r]]

(***************************************************************************)
(* collectAndSortFiles, files.ts.  CollectWalk is the inner collectFiles:  *)
(* acc = [files, totalSize, skippedFiles].                                 *)
(***************************************************************************)
RECURSIVE CollectWalk(_, _, _)
RECURSIVE CollectWalkAll(_, _, _)

CollectWalk(node, opts, acc) ==
  IF node.type = "file"
  THEN IF Truthy(node.size)
          /\ node.size > OrDefault(opts.maxFileSize, DEFAULT_MAX_FILE_SIZE)
       THEN [acc EXCEPT !.skippedFiles = @ + 1]
       ELSE [acc EXCEPT !.files = Append(@, node),
                        !.totalSize = @ + NumOrZero(node.size)]
  ELSE CollectWalkAll(node.children, opts, acc)

CollectWalkAll(kids, opts, acc) ==
  IF kids = << >> THEN acc
  ELSE CollectWalkAll(Tail(kids), opts, CollectWalk(Head(kids), opts, acc))

CollectAndSortFiles(tree, opts) ==
  LET acc == CollectWalk(tree, opts,
                         [files |-> << >>, totalSize |-> 0, skippedFiles |-> 0])
      keys == [i \in DOMAIN acc.files |-> CalculateFilePriority(acc.files[i])]
  IN [acc EXCEPT !.files = SortDescStable(acc.files, keys)]

(***************************************************************************)
(* buildDynamicBatches, files.ts.  st = [batches, batchSizes,              *)
(* currentBatch, currentBatchSize] is the state of the loop.               *)
(***************************************************************************)
\* Mutant of BatchLoopStep: only the count cap starts a new batch.
BatchLoopStepCountOnly(st, file, maxBatchSize, countCap) ==
  LET fileSize == NumOrZero(file.size)
  IN IF Len(st.currentBatch) >= countCap
     THEN [batches |-> IF Len(st.currentBatch) > 0
                       THEN Append(st.batches, st.currentBatch)
                       ELSE st.batches,
           batchSizes |-> IF Len(st.currentBatch) > 0
                          THEN Append(st.batchSizes, st.currentBatchSize)
                          ELSE st.batchSizes,
           currentBatch |-> << file >>,
           currentBatchSize |-> fileSize]
     ELSE [st EXCEPT !.currentBatch = Append(@, file),
                     !.currentBatchSize = @ + fileSize]

BatchLoopStep(st, file, maxBatchSize, countCap) ==
  LET fileSize == NumOrZero(file.size)
  IN IF st.currentBatchSize + fileSize > maxBatchSize
        \/ Len(st.currentBatch) >= countCap
     THEN [batches |-> IF Len(st.currentBatch) > 0
                       THEN Append(st.batches, st.currentBatch)
                       ELSE st.batches,
           batchSizes |-> IF Len(st.currentBatch) > 0
                          THEN Append(st.batchSizes, st.currentBatchSize)
                          ELSE st.batchSizes,
           currentBatch |-> << file >>,
           currentBatchSize |-> fileSize]
     ELSE [st EXCEPT !.currentBatch = Append(@, file),
                     !.currentBatchSize = @ + fileSize]

RECURSIVE BatchLoop(_, _, _, _)
BatchLoop(st, files, maxBatchSize, countCap) ==
  IF files = << >> THEN st
  ELSE BatchLoop(BatchLoopStep(st, Head(files), maxBatchSize, countCap),
                 Tail(files), maxBatchSize, countCap)

\* const maxBatchSize = (options.batchSize || 10) * 1024
MaxBatchSize(opts) == OrDefault(opts.batchSize, 10) * 1024

\* Mutant of BuildDynamicBatches: the batch still open after the loop is
\* not added.
BuildDynamicBatchesDropsLast(files, opts) ==
  LET st == BatchLoop([batches |-> << >>, batchSizes |-> << >>,
                       currentBatch |-> << >>, currentBatchSize |-> 0],
                      files, MaxBatchSize(opts), OrDefault(opts.batchSize, 10))
  IN [batches |-> st.batches, batchSizes |-> st.batchSizes]

BuildDynamicBatches(files, opts) ==
  LET st == BatchLoop([batches |-> << >>, batchSizes |-> << >>,
                       currentBatch |-> << >>, currentBatchSize |-> 0],
                      files, MaxBatchSize(opts), OrDefault(opts.batchSize, 10))
  IN IF Len(st.currentBatch) > 0
     THEN [batches |-> Append(st.batches, st.currentBatch),
           batchSizes |-> Append(st.batchSizes, st.currentBatchSize)]
     ELSE [batches |-> st.batches, batchSizes |-> st.batchSizes]

(***************************************************************************)
(* analyzeProjectWithAI, project-reader.ts: collection, sort and the       *)
(* inline batch builder.  Here batchSize has a default only when absent.   *)
(***************************************************************************)
RECURSIVE CollectFiles(_)
RECURSIVE CollectFilesAll(_)

CollectFiles(node) ==
  IF node.type = "file" THEN << node >> ELSE CollectFilesAll(node.children)

CollectFilesAll(kids) ==
  IF kids = << >> THEN << >>
  ELSE CollectFiles(Head(kids)) \o CollectFilesAll(Tail(kids))

SortedFileQueue(tree) ==
  LET q == CollectFiles(tree)
  IN SortDescStable(q, [i \in DOMAIN q |-> PipelinePriority(q[i])])

DefaultIfAbsent(x, d) == IF x = Undef THEN d ELSE x

CONCURRENT_LIMIT == 5

BATCH_SIZE == 10

\* const maxBatchSize = batchSize * 1024
InlineMaxBatchSize(batchSize) == batchSize * 1024

InlineBatchStep(st, node, batchSize) ==
  LET nodeSize == NumOrZero(node.size)
  IN IF st.currentBatchSize + nodeSize > InlineMaxBatchSize(batchSize)
        \/ Len(st.currentBatch) >= batchSize
     THEN [batches |-> IF Len(st.currentBatch) > 0
                       THEN Append(st.batches, st.currentBatch)
                       ELSE st.batches,
           currentBatch |-> << node >>,
           currentBatchSize |-> nodeSize]
     ELSE [st EXCEPT !.currentBatch = Append(@, node),
                     !.currentBatchSize = @ + nodeSize]

RECURSIVE InlineBatchLoop(_, _, _)
InlineBatchLoop(st, queue, batchSize) ==
  IF queue = << >> THEN st
  ELSE InlineBatchLoop(InlineBatchStep(st, Head(queue), batchSize),
                       Tail(queue), batchSize)

InlineBatches(queue, batchSize) ==
  LET st == InlineBatchLoop([batches |-> << >>, currentBatch |-> << >>,
                             currentBatchSize |-> 0], queue, batchSize)
  IN IF Len(st.currentBatch) > 0
     THEN Append(st.batches, st.currentBatch)
     ELSE st.batches

(***************************************************************************)
(* Semaphore, project-reader.ts.  st = [sem, task, who]: the semaphore,    *)
(* the call chains, and the path on whose behalf the operation runs.       *)
(* A call chain is waiting (its resolver is in semaphore.waiting), granted *)
(* (acquire() resolved, continuation not yet run), analyzing (the analyze  *)
(* call is in flight), sleeping (backoff timer pending) or settled.        *)
(* acq and rel count the grants to, and the release() calls of, the chain. *)
(***************************************************************************)
NewSemaphore(permits) == [permits |-> permits, waiting |-> << >>]

Grant(tk, p) == [tk EXCEPT ![p].phase = "granted", ![p].acq = @ + 1]

\* Mutant of SemAcquire: grants a permit when permits is 0 as well.
SemAcquireOffByOne(st, p) ==
  IF st.sem.permits >= 0
  THEN [sem |-> [st.sem EXCEPT !.permits = @ - 1], task |-> Grant(st.task, p)]
  ELSE [sem |-> [st.sem EXCEPT !.waiting = Append(@, p)],
        task |-> [st.task EXCEPT ![p].phase = "waiting"]]

\* semaphore.acquire() called by the chain of path p
SemAcquire(st, p) ==
  IF st.sem.permits > 0
  THEN [sem |-> [st.sem EXCEPT !.permits = @ - 1], task |-> Grant(st.task, p)]
  ELSE [sem |-> [st.sem EXCEPT !.waiting = Append(@, p)],
        task |-> [st.task EXCEPT ![p].phase = "waiting"]]

\* Mutant of SemRelease: returns the permit to the pool even when it hands
\* it to a waiter.
SemReleaseAlwaysIncrements(st, p) ==
  LET tk == [st.task EXCEPT ![p].rel = @ + 1]
  IN IF Len(st.sem.waiting) > 0
     THEN [sem |-> [st.sem EXCEPT !.waiting = Tail(@), !.permits = @ + 1],
           task |-> Grant(tk, Head(st.sem.waiting))]
     ELSE [sem |-> [st.sem EXCEPT !.permits = @ + 1], task |-> tk]

\* Mutant of SemRelease: the permit goes to the waiter that came last.
SemReleaseToNewest(st, p) ==
  LET tk == [st.task EXCEPT ![p].rel = @ + 1]
      n == Len(st.sem.waiting)
  IN IF n > 0
     THEN [sem |-> [st.sem EXCEPT !.waiting = SubSeq(@, 1, n - 1)],
           task |-> Grant(tk, st.sem.waiting[n])]
     ELSE [sem |-> [st.sem EXCEPT !.permits = @ + 1], task |-> tk]

\* Mutant of SemRelease: the permit goes back to the pool and no waiter is
\* served.
SemReleaseSkipsWaiters(st, p) ==
  LET tk == [st.task EXCEPT ![p].rel = @ + 1]
  IN [sem |-> [st.sem EXCEPT !.permits = @ + 1], task |-> tk]

\* semaphore.release() called by the chain of path p
SemRelease(st, p) ==
  LET tk == [st.task EXCEPT ![p].rel = @ + 1]
  IN IF Len(st.sem.waiting) > 0
     THEN [sem |-> [st.sem EXCEPT !.waiting = Tail(@)],
           task |-> Grant(tk, Head(st.sem.waiting))]
     ELSE [sem |-> [st.sem EXCEPT !.permits = @ + 1], task |-> tk]

(***************************************************************************)
(* analyzeProjectWithAI, project-reader.ts.                                *)
(***************************************************************************)
IdleTask ==
  [phase |-> "idle", retryCount |-> 0, value |-> "none", starts |-> << >>,
   slept |-> 0, acq |-> 0, rel |-> 0]

Paths(queue) == { queue[i].path : i \in DOMAIN queue }

NodeOf(p) == fileQueue[CHOOSE i \in DOMAIN fileQueue : fileQueue[i].path = p]

ConcurrentLimit == DefaultIfAbsent(options.concurrentLimit, CONCURRENT_LIMIT)

BatchSize == DefaultIfAbsent(options.batchSize, BATCH_SIZE)

MaxRetries == DefaultIfAbsent(options.maxRetries, 3)

RetryDelay == DefaultIfAbsent(options.retryDelay, 1000)

\* Mutant of BackoffDelay: a fixed delay, no doubling.
BackoffDelayFixed(retryCount) == RetryDelay

\* const delay = retryDelay * Math.pow(2, retryCount)
BackoffDelay(retryCount) == RetryDelay * Pow2(retryCount)

\* Everything up to the batch loop: collect, sort, metrics, batches.
Setup ==
  /\ pc = "idle"
  /\ LET queue == SortedFileQueue(projectTree)
     IN /\ fileQueue' = queue
        /\ performanceMetrics' =
             [totalFiles |-> Len(queue), processedFiles |-> 0,
              failedFiles |-> 0, totalSize |-> SumSizes(queue)]
        /\ semaphore' = NewSemaphore(ConcurrentLimit)
        /\ task' = [p \in Paths(queue) |-> IdleTask]
        /\ batches' = InlineBatches(queue, BatchSize)
  /\ batchIdx' = 1
  /\ processedCount' = 0
  /\ failedCount' = 0
  /\ analysisResults' = << >>
  /\ pc' = "loop"
  /\ UNCHANGED << projectTree, options, collected, inputFiles, batchResult,
                  tracker, priorities,
                  scanner, watcher >>

\* batch.map((node) => analyzeFileWithRetry(node)): every call runs up to
\* its first await, that is, calls semaphore.acquire(), in batch order.
RECURSIVE DispatchAll(_, _)
DispatchAll(st, nodes) ==
  IF nodes = << >> THEN st
  ELSE DispatchAll(SemAcquire(st, Head(nodes).path), Tail(nodes))

ProcessBatch ==
  /\ pc = "loop"
  /\ batchIdx <= Len(batches)
  /\ LET st == DispatchAll([sem |-> semaphore, task |-> task],
                           batches[batchIdx])
     IN /\ semaphore' = st.sem
        /\ task' = st.task
  /\ pc' = "awaitBatch"
  /\ UNCHANGED << projectTree, options, fileQueue, batches, batchIdx,
                  processedCount, failedCount, analysisResults,
                  performanceMetrics, collected, inputFiles, batchResult,
                  tracker, priorities,
                  scanner, watcher >>

\* The continuation after  await semaphore.acquire(): analyzeFileWithAI is
\* called.  starts records, per attempt, the backoff slept so far.
AnalyzeStart(p) ==
  /\ pc = "awaitBatch"
  /\ task[p].phase = "granted"
  /\ task' = [task EXCEPT ![p].phase = "analyzing",
                          ![p].starts = Append(@, task[p].slept)]
  /\ UNCHANGED << projectTree, options, pc, fileQueue, batches, batchIdx,
                  semaphore, processedCount, failedCount, analysisResults,
                  performanceMetrics, collected, inputFiles, batchResult,
                  tracker, priorities,
                  scanner, watcher >>

\* Mutant of AnalyzeReturn: the result is pushed to analysisResults as soon
\* as the call completes.
AnalyzeReturnPushesResult(p, v) ==
  /\ pc = "awaitBatch"
  /\ task[p].phase = "analyzing"
  /\ processedCount' = processedCount + 1
  /\ analysisResults' =
       IF v = "empty" THEN analysisResults
       ELSE Append(analysisResults,
                   [path |-> NodeOf(p).path, name |-> NodeOf(p).name,
                    size |-> NodeOf(p).size, kind |-> v])
  /\ LET st == SemRelease(
                 [sem |-> semaphore,
                  task |-> [task EXCEPT ![p].phase = "settled",
                                        ![p].value = v]], p)
     IN /\ semaphore' = st.sem
        /\ task' = st.task
  /\ UNCHANGED << projectTree, options, pc, fileQueue, batches, batchIdx,
                  failedCount, performanceMetrics,
                  collected, inputFiles, batchResult,
                  tracker, priorities,
                  scanner, watcher >>

\* analyze resolved (with a result, or with null): processedCount++,
\* return result, then the finally block releases.
AnalyzeReturn(p, v) ==
  /\ pc = "awaitBatch"
  /\ task[p].phase = "analyzing"
  /\ processedCount' = processedCount + 1
  /\ LET st == SemRelease(
                 [sem |-> semaphore,
                  task |-> [task EXCEPT ![p].phase = "settled",
                                        ![p].value = v]], p)
     IN /\ semaphore' = st.sem
        /\ task' = st.task
  /\ UNCHANGED << projectTree, options, pc, fileQueue, batches, batchIdx,
                  failedCount, analysisResults, performanceMetrics,
                  collected, inputFiles, batchResult,
                  tracker, priorities,
                  scanner, watcher >>

\* Mutant of AnalyzeThrow: the failure marker is returned without running
\* the finally block, so the permit is kept.
AnalyzeThrowKeepsPermit(p) ==
  /\ pc = "awaitBatch"
  /\ task[p].phase = "analyzing"
  /\ failedCount' = failedCount + 1
  /\ IF task[p].retryCount < MaxRetries
     THEN task' = [task EXCEPT ![p].phase = "sleeping"]
     ELSE task' = [task EXCEPT ![p].phase = "settled", ![p].value = "failure"]
  /\ UNCHANGED << projectTree, options, pc, fileQueue, batches, batchIdx,
                  semaphore, processedCount, analysisResults,
                  performanceMetrics, collected, inputFiles, batchResult,
                  tracker, priorities,
                  scanner, watcher >>

\* analyze rejected: failedCount++; either the backoff sleep starts (the
\* finally block has not run yet), or the failure marker is returned and
\* the finally block releases.
AnalyzeThrow(p) ==
  /\ pc = "awaitBatch"
  /\ task[p].phase = "analyzing"
  /\ failedCount' = failedCount + 1
  /\ IF task[p].retryCount < MaxRetries
     THEN /\ task' = [task EXCEPT ![p].phase = "sleeping"]
          /\ UNCHANGED semaphore
     ELSE LET st == SemRelease(
                      [sem |-> semaphore,
                       task |-> [task EXCEPT ![p].phase = "settled",
                                             ![p].value = "failure"]], p)
          IN /\ semaphore' = st.sem
             /\ task' = st.task
  /\ UNCHANGED << projectTree, options, pc, fileQueue, batches, batchIdx,
                  processedCount, analysisResults, performanceMetrics,
                  collected, inputFiles, batchResult,
                  tracker, priorities,
                  scanner, watcher >>

\* The backoff timer fired:  return analyzeFileWithRetry(node, retryCount+1)
\* runs the nested call up to its acquire(), then the finally block of the
\* outer call releases.
BackoffDone(p) ==
  /\ pc = "awaitBatch"
  /\ task[p].phase = "sleeping"
  /\ LET slept == [task EXCEPT ![p].slept = @ + BackoffDelay(task[p].retryCount),
                               ![p].retryCount = @ + 1]
         st == SemRelease(SemAcquire([sem |-> semaphore, task |-> slept], p), p)
     IN /\ semaphore' = st.sem
        /\ task' = st.task
  /\ UNCHANGED << projectTree, options, pc, fileQueue, batches, batchIdx,
                  processedCount, failedCount, analysisResults,
                  performanceMetrics, collected, inputFiles, batchResult,
                  tracker, priorities,
                  scanner, watcher >>

\* What a settled call chain resolved with: the analyzer's result, null,
\* or the failure marker built from the node.
ResultOf(node, v) ==
  [path |-> node.path, name |-> node.name, size |-> node.size, kind |-> v]

\* Mutant of BatchResults: failure markers are filtered out like nulls.
RECURSIVE BatchResultsDropFailures(_)
BatchResultsDropFailures(nodes) ==
  IF nodes = << >> THEN << >>
  ELSE LET v == task[Head(nodes).path].value
       IN (IF v \in {"empty", "failure"} THEN << >>
           ELSE << ResultOf(Head(nodes), v) >>)
          \o BatchResultsDropFailures(Tail(nodes))

\* Mutant of BatchResults: the nulls are not filtered out.
RECURSIVE BatchResultsKeepsEmpty(_)
BatchResultsKeepsEmpty(nodes) ==
  IF nodes = << >> THEN << >>
  ELSE << ResultOf(Head(nodes), task[Head(nodes).path].value) >>
       \o BatchResultsKeepsEmpty(Tail(nodes))

RECURSIVE BatchResults(_)
BatchResults(nodes) ==
  IF nodes = << >> THEN << >>
  ELSE LET v == task[Head(nodes).path].value
       IN (IF v = "empty" THEN << >> ELSE << ResultOf(Head(nodes), v) >>)
          \o BatchResults(Tail(nodes))

\* Mutant of BatchSettled: the batch loop goes on as soon as one call of the
\* batch has settled.
BatchSettledOnFirst ==
  /\ pc = "awaitBatch"
  /\ \E i \in DOMAIN batches[batchIdx] :
        task[batches[batchIdx][i].path].phase = "settled"
  /\ analysisResults' = analysisResults \o BatchResults(batches[batchIdx])
  /\ IF batchIdx < Len(batches)
     THEN pc' = "delay" /\ UNCHANGED batchIdx
     ELSE pc' = "loop" /\ batchIdx' = batchIdx + 1
  /\ UNCHANGED << projectTree, options, fileQueue, batches, semaphore, task,
                  processedCount, failedCount, performanceMetrics,
                  collected, inputFiles, batchResult,
                  tracker, priorities,
                  scanner, watcher >>

\* Promise.all resolved: filter the nulls, push the results; sleep 50 ms
\* unless this was the last batch.
BatchSettled ==
  /\ pc = "awaitBatch"
  /\ \A i \in DOMAIN batches[batchIdx] :
        task[batches[batchIdx][i].path].phase = "settled"
  /\ analysisResults' = analysisResults \o BatchResults(batches[batchIdx])
  /\ IF batchIdx < Len(batches)
     THEN pc' = "delay" /\ UNCHANGED batchIdx
     ELSE pc' = "loop" /\ batchIdx' = batchIdx + 1
  /\ UNCHANGED << projectTree, options, fileQueue, batches, semaphore, task,
                  processedCount, failedCount, performanceMetrics,
                  collected, inputFiles, batchResult,
                  tracker, priorities,
                  scanner, watcher >>

DelayDone ==
  /\ pc = "delay"
  /\ batchIdx' = batchIdx + 1
  /\ pc' = "loop"
  /\ UNCHANGED << projectTree, options, fileQueue, batches, semaphore, task,
                  processedCount, failedCount, analysisResults,
                  performanceMetrics, collected, inputFiles, batchResult,
                  tracker, priorities,
                  scanner, watcher >>

\* After the loop: the final metrics, then return analysisResults.
Finalize ==
  /\ pc = "loop"
  /\ batchIdx > Len(batches)
  /\ performanceMetrics' =
       [performanceMetrics EXCEPT !.processedFiles = processedCount - failedCount,
                                  !.failedFiles = failedCount]
  /\ pc' = "done"
  /\ UNCHANGED << projectTree, options, fileQueue, batches, batchIdx,
                  semaphore, task, processedCount, failedCount,
                  analysisResults, collected, inputFiles, batchResult,
                  tracker, priorities,
                  scanner, watcher >>

(***************************************************************************)
(* Inputs of the pipeline.                                                 *)
(***************************************************************************)
PipelineKinds ==
  { [name |-> "index.ts", extension |-> ".ts", size |-> 512],
    [name |-> "bundle.js", extension |-> ".js", size |-> 200 * 1024] }

PipelineTrees(n) ==
  { MkTree(kinds, Min(1, Len(kinds)), Len(kinds)) : kinds \in SeqsUpTo(PipelineKinds, n) }

NoCollected == [files |-> << >>, totalSize |-> 0, skippedFiles |-> 0]

NoBatchResult == [batches |-> << >>, batchSizes |-> << >>]

\* no PerformanceTracker has been constructed
NoTracker == [isFinished |-> FALSE]

\* no OctoLensScanner has been constructed
NoScanner == [isScanning |-> FALSE]

\* no ProjectWatcher has been constructed
NoWatcher == [isScanning |-> FALSE]

NoMetrics ==
  [totalFiles |-> 0, processedFiles |-> 0, failedFiles |-> 0, totalSize |-> 0]

PipelineIdle ==
  /\ pc = "idle"
  /\ fileQueue = << >>
  /\ batches = << >>
  /\ batchIdx = 1
  /\ semaphore = NewSemaphore(0)
  /\ task = << >>
  /\ processedCount = 0
  /\ failedCount = 0
  /\ analysisResults = << >>
  /\ performanceMetrics = NoMetrics
  /\ collected = NoCollected
  /\ inputFiles = << >>
  /\ batchResult = NoBatchResult
  /\ tracker = NoTracker
  /\ priorities = << >>
  /\ scanner = NoScanner
  /\ watcher = NoWatcher

\* maxRetries given by the caller of the general pipeline: no retry, or one.
\* The default of three retries is run by RetrySpec below.
PipelineRetries == {0, 1}

Init ==
  /\ projectTree \in PipelineTrees(MaxFiles)
  /\ options \in [concurrentLimit : 0..MaxLimit,
                  batchSize : {1, 2, Undef},
                  maxRetries : PipelineRetries,
                  retryDelay : {100}]
  /\ PipelineIdle

Next ==
  \/ Setup
  \/ ProcessBatch
  \/ \E p \in DOMAIN task : AnalyzeStart(p)
  \/ \E p \in DOMAIN task : \E v \in {"result", "empty"} : AnalyzeReturn(p, v)
  \/ \E p \in DOMAIN task : AnalyzeThrow(p)
  \/ \E p \in DOMAIN task : BackoffDone(p)
  \/ BatchSettled
  \/ DelayDone
  \/ Finalize

Spec == Init /\ [][Next]_vars

\* The event loop runs every continuation that is ready, and every analyze
\* call and every timer eventually ends.
FairSpec == Spec /\ WF_vars(Next)

(***************************************************************************)
(* The retry schedule: the same pipeline, started with the default         *)
(* maxRetries (absent, or 3 given explicitly).                             *)
(***************************************************************************)
RetryMaxFiles == 2

RetryInit ==
  /\ projectTree \in PipelineTrees(RetryMaxFiles)
  /\ options \in [concurrentLimit : {1, 2},
                  batchSize : {Undef},
                  maxRetries : {Undef, 3},
                  retryDelay : {100, Undef}]
  /\ PipelineIdle

RetrySpec == RetryInit /\ [][Next]_vars

(***************************************************************************)
(* Claims about the pipeline.                                              *)
(***************************************************************************)
InFlight == { p \in DOMAIN task : task[p].phase = "analyzing" }

Waiting == { p \in DOMAIN task : task[p].phase = "waiting" }

Unsettled == { p \in DOMAIN task : task[p].phase \notin {"idle", "settled"} }

Attempts(p) == Len(task[p].starts)

\* C1: with concurrentLimit >= 1, the number of analyze calls in flight is
\* at most concurrentLimit in every reachable state, whatever the
\* interleaving of completions, failures and retries.
C1_InFlightWithinLimit ==
  ConcurrentLimit >= 1 => Cardinality(InFlight) <= ConcurrentLimit

\* C1 witness: the limit is reached while another call waits and some call
\* is already on a retry.
C1_Witness ==
  /\ ConcurrentLimit >= 1
  /\ Cardinality(InFlight) = ConcurrentLimit
  /\ Waiting # {}
  /\ \E p \in DOMAIN task : task[p].retryCount > 0

\* C2 (state part): with concurrentLimit >= 1 there is no state in which
\* work is unfinished and every unfinished call waits on acquire().
C2_NotAllWaiting ==
  ConcurrentLimit >= 1 /\ Unsettled # {} => Unsettled # Waiting

\* Steps the run may still take: a bound that every step lowers.
PhaseRank(ph) ==
  CASE ph = "idle" -> 5
    [] ph = "waiting" -> 4
    [] ph = "granted" -> 3
    [] ph = "analyzing" -> 2
    [] ph = "sleeping" -> 1
    [] OTHER -> 0

TaskRank(t) ==
  IF t.phase = "settled" THEN 0
  ELSE 4 * (MaxRetries - t.retryCount) + PhaseRank(t.phase)

\* The ranks of the call chains of fileQueue[1..i].
RECURSIVE SumRanks(_)
SumRanks(i) ==
  IF i = 0 THEN 0
  ELSE TaskRank(task[fileQueue[i].path]) + SumRanks(i - 1)

StepsLeft ==
  CASE pc = "idle" ->
         LET n == Len(CollectFiles(projectTree))
         IN 3 * (n + 1) + 4 + n * (4 * MaxRetries + 5)
    [] pc = "done" -> 0
    [] OTHER ->
         3 * (Len(batches) - batchIdx + 1)
         + (CASE pc = "loop" -> 3 [] pc = "awaitBatch" -> 2 [] OTHER -> 1)
         + SumRanks(Len(fileQueue))

\* Some step of Next can be taken: the disjunction of the actions' guards.
StepReady ==
  \/ pc \in {"idle", "loop", "delay"}
  \/ /\ pc = "awaitBatch"
     /\ \/ \E p \in DOMAIN task :
              task[p].phase \in {"granted", "analyzing", "sleeping"}
        \/ \A i \in DOMAIN batches[batchIdx] :
              task[batches[batchIdx][i].path].phase = "settled"

\* C2: analyzer failures never abort or block the run: with
\* concurrentLimit >= 1, whatever the analyzer answers, no state has every
\* unfinished call waiting on acquire(), some step is possible in every
\* state in which the run has not returned, and every step lowers the
\* bounded number of steps left: the run finishes all batches and returns.
C2_RunTerminates ==
  /\ [] (ConcurrentLimit >= 1 =>
           C2_NotAllWaiting /\ (pc = "done" \/ StepReady))
  /\ [] (StepsLeft >= 0)
  /\ [][StepsLeft' < StepsLeft]_vars

\* C2 witness: a run in which analyze calls failed, one of them for good,
\* has returned.
C2_Witness ==
  /\ ConcurrentLimit >= 1
  /\ pc = "done"
  /\ \E p \in DOMAIN task : task[p].value = "failure"
  /\ \E p \in DOMAIN task : task[p].value # "failure" /\ task[p].retryCount > 0

\* C3: every granted permit is released exactly once, on the success and on
\* the failure path: no call chain has released more often than it was
\* granted a permit, a settled chain has released once per attempt, and when
\* the run returns the semaphore has concurrentLimit permits again and
\* nobody waits.
C3_PermitsReleasedOnce ==
  /\ \A p \in DOMAIN task :
        /\ task[p].rel <= task[p].acq
        /\ task[p].phase = "settled" =>
              task[p].rel = task[p].acq /\ task[p].acq = Attempts(p)
  /\ pc = "done" =>
        /\ semaphore.permits = ConcurrentLimit
        /\ semaphore.waiting = << >>

\* C3 witness: the run returned after one file failed for good and another
\* succeeded on a retry.
C3_Witness ==
  /\ pc = "done"
  /\ ConcurrentLimit >= 1
  /\ \E p \in DOMAIN task : task[p].value = "failure" /\ task[p].rel > 1
  /\ \E p \in DOMAIN task : task[p].value = "result" /\ task[p].rel > 1

\* performanceMetrics of analyzeProjectWithAI has no skippedFiles field:
\* nothing is reported as skipped.
ReportedSkippedFiles == 0

\* C4: when the run ends, processedFiles + failedFiles + skippedFiles
\* equals totalFiles.
C4_CountersAddUp ==
  pc = "done" =>
    performanceMetrics.processedFiles + performanceMetrics.failedFiles
      + ReportedSkippedFiles = performanceMetrics.totalFiles

\* C5: the counters are updated once per file with its terminal outcome:
\* when the run ends, processedFiles is the number of files whose analyze
\* finally succeeded and failedFiles the number of files that failed all
\* their attempts.
C5_CountedOncePerFile ==
  pc = "done" =>
    /\ performanceMetrics.processedFiles =
         Cardinality({ p \in DOMAIN task : task[p].value \in {"result", "empty"} })
    /\ performanceMetrics.failedFiles =
         Cardinality({ p \in DOMAIN task : task[p].value = "failure" })

\* C6: a file whose analyze fails every time gets exactly maxRetries + 1
\* attempts; attempt number a + 1 starts retryDelay * 2^a after the failure
\* of attempt a, so attempt k (from 0) starts retryDelay * (2^k - 1) of
\* backoff after the first; with maxRetries = 3 and retryDelay = 100 the
\* four attempts start after 0, 100, 300 and 700 ms of backoff.
C6_BackoffSchedule ==
  \A p \in DOMAIN task :
     /\ Attempts(p) <= MaxRetries + 1
     /\ \A k \in 1..Attempts(p) :
           task[p].starts[k] = RetryDelay * (Pow2(k - 1) - 1)
     /\ \A k \in 1..(Attempts(p) - 1) :
           task[p].starts[k + 1] - task[p].starts[k] = RetryDelay * Pow2(k - 1)
     /\ task[p].value = "failure" =>
           /\ Attempts(p) = MaxRetries + 1
           /\ MaxRetries = 3 /\ RetryDelay = 100 =>
                 task[p].starts = << 0, 100, 300, 700 >>

\* C6 witness: with maxRetries = 3 and retryDelay = 100 a file has failed
\* all its attempts.
C6_Witness ==
  /\ MaxRetries = 3
  /\ RetryDelay = 100
  /\ \E p \in DOMAIN task : task[p].value = "failure" /\ Attempts(p) = 4

\* C7: a file that fails all its attempts resolves with a failure marker
\* carrying its name, path and size; the run is not aborted: when it
\* returns, every file of every batch has been analyzed and settled, and
\* the marker of every failed file is in the returned array.
C7_FailureContained ==
  /\ \A p \in DOMAIN task :
        task[p].value = "failure" =>
          task[p].phase = "settled" /\ Attempts(p) = MaxRetries + 1
  /\ pc = "done" =>
        /\ \A p \in DOMAIN task : task[p].phase = "settled" /\ Attempts(p) >= 1
        /\ \A p \in DOMAIN task :
              task[p].value = "failure" =>
                \E i \in DOMAIN analysisResults :
                   analysisResults[i] =
                     [path |-> p, name |-> NodeOf(p).name,
                      size |-> NodeOf(p).size, kind |-> "failure"]

\* C7 witness: the run returned; a file of the first batch failed for good,
\* another file of that batch and a file of a later batch were analyzed
\* successfully.
C7_Witness ==
  /\ pc = "done"
  /\ Len(batches) >= 2
  /\ Len(batches[1]) >= 2
  /\ \E i \in DOMAIN batches[1] : task[batches[1][i].path].value = "failure"
  /\ \E i \in DOMAIN batches[1] : task[batches[1][i].path].value = "result"
  /\ \E i \in DOMAIN batches[2] : task[batches[2][i].path].value = "result"

\* C8: no file larger than the size cap is passed to analyze: such a file
\* is granted no permit and no analyze call is ever started for it.
C8_OversizedNeverAnalyzed ==
  \A p \in DOMAIN task :
     NodeOf(p).size > MAX_FILE_SIZE =>
       task[p].acq = 0 /\ Attempts(p) = 0

(***************************************************************************)
(* collectAndSortFiles applied to a tree (files.ts).                       *)
(***************************************************************************)
CollectKinds ==
  { [name |-> "index.ts", extension |-> ".ts", size |-> 512],
    [name |-> "util.test.ts", extension |-> ".ts", size |-> 0],
    [name |-> "flow.e2e.test.ts", extension |-> ".ts", size |-> Undef],
    [name |-> "style.css", extension |-> ".css", size |-> 20 * 1024],
    [name |-> "bundle.js", extension |-> ".js", size |-> 100 * 1024],
    [name |-> "vendor.js", extension |-> ".js", size |-> 100 * 1024 + 1] }

CollectInit ==
  /\ \E kinds \in SeqsUpTo(CollectKinds, MaxTreeFiles) :
       \E sh \in Shapes(Len(kinds)) :
          projectTree = MkTree(kinds, sh[1], sh[2])
  /\ options \in [maxFileSize : {Undef, 0, 1024, 100 * 1024}]
  /\ pc = "collect"
  /\ fileQueue = << >>
  /\ batches = << >>
  /\ batchIdx = 1
  /\ semaphore = NewSemaphore(0)
  /\ task = << >>
  /\ processedCount = 0
  /\ failedCount = 0
  /\ analysisResults = << >>
  /\ performanceMetrics = NoMetrics
  /\ collected = NoCollected
  /\ inputFiles = << >>
  /\ batchResult = NoBatchResult
  /\ tracker = NoTracker
  /\ priorities = << >>
  /\ scanner = NoScanner
  /\ watcher = NoWatcher

DoCollect ==
  /\ pc = "collect"
  /\ collected' = CollectAndSortFiles(projectTree, options)
  /\ pc' = "collected"
  /\ UNCHANGED << projectTree, options, fileQueue, batches, batchIdx,
                  semaphore, task, processedCount, failedCount,
                  analysisResults, performanceMetrics, inputFiles,
                  batchResult,
                  tracker, priorities,
                  scanner, watcher >>

CollectSpec == CollectInit /\ [][DoCollect]_vars

\* The file nodes of a tree, in depth-first order.
FileNodes == CollectFiles(projectTree)

\* size, with an absent size read as 0
SizeOf(node) == IF node.size = Undef THEN 0 ELSE node.size

\* the cap the caller asked for: maxFileSize, 100 KiB when it is absent
RequestedMaxFileSize ==
  IF options.maxFileSize = Undef THEN DEFAULT_MAX_FILE_SIZE
  ELSE options.maxFileSize

\* C9: collectAndSortFiles partitions the file nodes of the tree, for every
\* options value, maxFileSize = 0 included: every returned file has
\* size <= maxFileSize, skippedFiles counts exactly the file nodes with
\* size > maxFileSize, files.length + skippedFiles is the number of file
\* nodes, and totalSize is the sum of the sizes of the returned files.
C9_CollectPartitions ==
  pc = "collected" =>
    /\ \A i \in DOMAIN collected.files :
          SizeOf(collected.files[i]) <= RequestedMaxFileSize
    /\ collected.skippedFiles =
         Cardinality({ i \in DOMAIN FileNodes :
                         SizeOf(FileNodes[i]) > RequestedMaxFileSize })
    /\ Len(collected.files) + collected.skippedFiles = Len(FileNodes)
    /\ collected.totalSize = SumSizes(collected.files)

(***************************************************************************)
(* The batch builders applied to a file list: buildDynamicBatches          *)
(* (files.ts) and the inline builder of analyzeProjectWithAI.              *)
(***************************************************************************)
BatchKinds ==
  { [name |-> "index.ts", extension |-> ".ts", size |-> Undef],
    [name |-> "index.ts", extension |-> ".ts", size |-> 512],
    [name |-> "index.ts", extension |-> ".ts", size |-> 1024],
    [name |-> "index.ts", extension |-> ".ts", size |-> 1536],
    [name |-> "index.ts", extension |-> ".ts", size |-> 12 * 1024] }

\* batchSize values given to the batch builders
BatchSizeChoices == {Undef, 0, 1, 2, 3}

BatchInit ==
  /\ \E kinds \in SeqsUpTo(BatchKinds, MaxListLen) :
        inputFiles = [i \in DOMAIN kinds |->
                        FileNode(PathOf(i), kinds[i].name, kinds[i].extension,
                                 kinds[i].size)]
  /\ options \in [batchSize : BatchSizeChoices]
  /\ pc = "batch"
  /\ projectTree = DirNode("root", << >>)
  /\ fileQueue = << >>
  /\ batches = << >>
  /\ batchIdx = 1
  /\ semaphore = NewSemaphore(0)
  /\ task = << >>
  /\ processedCount = 0
  /\ failedCount = 0
  /\ analysisResults = << >>
  /\ performanceMetrics = NoMetrics
  /\ collected = NoCollected
  /\ batchResult = NoBatchResult
  /\ tracker = NoTracker
  /\ priorities = << >>
  /\ scanner = NoScanner
  /\ watcher = NoWatcher

DoBuildBatches ==
  /\ pc = "batch"
  /\ batchResult' = BuildDynamicBatches(inputFiles, options)
  /\ batches' = InlineBatches(inputFiles, BatchSize)
  /\ pc' = "batched"
  /\ UNCHANGED << projectTree, options, fileQueue, batchIdx, semaphore, task,
                  processedCount, failedCount, analysisResults,
                  performanceMetrics, collected, inputFiles,
                  tracker, priorities,
                  scanner, watcher >>

BatchSpec == BatchInit /\ [][DoBuildBatches]_vars

\* a batch respects the byte cap, or is one file that alone exceeds it
WithinCap(batch, cap) ==
  \/ SumSizes(batch) <= cap
  \/ Len(batch) = 1 /\ SizeOf(batch[1]) > cap

\* C10: every batch of the batch builder has a byte sum no greater than the
\* byte cap, except a batch of exactly one file that alone exceeds the cap,
\* and batchSizes[i] is the sum of the sizes of the files of batches[i];
\* the same cap rule holds for the batches built inline by the pipeline.
C10_BatchesWithinByteCap ==
  pc = "batched" =>
    /\ Len(batchResult.batchSizes) = Len(batchResult.batches)
    /\ \A i \in DOMAIN batchResult.batches :
          /\ WithinCap(batchResult.batches[i], MaxBatchSize(options))
          /\ batchResult.batchSizes[i] = SumSizes(batchResult.batches[i])
    /\ \A i \in DOMAIN batches :
          WithinCap(batches[i], InlineMaxBatchSize(BatchSize))

\* C10 witness: the builder produced a batch of one file larger than the
\* cap, and a batch of several files that fills the cap exactly.
C10_Witness ==
  /\ pc = "batched"
  /\ \E i \in DOMAIN batchResult.batches :
        /\ Len(batchResult.batches[i]) = 1
        /\ batchResult.batchSizes[i] > MaxBatchSize(options)
  /\ \E i \in DOMAIN batchResult.batches :
        /\ Len(batchResult.batches[i]) >= 2
        /\ batchResult.batchSizes[i] = MaxBatchSize(options)
  /\ \E i \in DOMAIN batches : Len(batches[i]) >= 2

\* the batches of a list of batches, one after another
RECURSIVE Concat(_)
Concat(bs) == IF bs = << >> THEN << >> ELSE Head(bs) \o Concat(Tail(bs))

\* C11: for every input file list, the batches returned by the batch
\* builder, concatenated in order, are exactly the input list: no file is
\* dropped or duplicated and the order of the files is kept; the same holds
\* for the batches built inline by the pipeline.
C11_BatchesConcatToInput ==
  pc = "batched" =>
    /\ Concat(batchResult.batches) = inputFiles
    /\ Concat(batches) = inputFiles

\* C11 witness: a list of at least three files was split into several
\* batches, one of them of several files, by both builders.
C11_Witness ==
  /\ pc = "batched"
  /\ Len(inputFiles) >= 3
  /\ Len(batchResult.batches) >= 2
  /\ \E i \in DOMAIN batchResult.batches : Len(batchResult.batches[i]) >= 2
  /\ Len(batches) >= 2
  /\ \E i \in DOMAIN batches : Len(batches[i]) >= 2

\* C12: the byte cap and the count cap of a batch are independent: a run
\* on the same files that differs only in batchSize compares each batch's
\* byte sum against the same byte limit, so every batch it builds is within
\* the byte limit this run applied (or is one file that alone exceeds it),
\* in buildDynamicBatches and in the inline builder of the pipeline.
C12_ByteCapIndependentOfBatchSize ==
  pc = "batched" =>
    \A b \in BatchSizeChoices :
       LET other == BuildDynamicBatches(inputFiles,
                                        [options EXCEPT !.batchSize = b]).batches
           inline == InlineBatches(inputFiles, DefaultIfAbsent(b, BATCH_SIZE))
       IN /\ \A i \in DOMAIN other : WithinCap(other[i], MaxBatchSize(options))
          /\ \A i \in DOMAIN inline :
                WithinCap(inline[i], InlineMaxBatchSize(BatchSize))

\* the paths of the files of batch k
BatchPaths(k) == { batches[k][i].path : i \in DOMAIN batches[k] }

\* C13: batches run strictly one after another: whenever a call for a file
\* of a later batch has been dispatched (so before any of its attempts can
\* start), every file of every earlier batch is settled: none has an attempt
\* in flight, a backoff sleep pending or a retry waiting for a permit; and
\* a step that starts an attempt starts it for a file of the current batch.
C13_BatchesSequential ==
  /\ [] (\A j, k \in DOMAIN batches :
            j < k =>
              \A p \in BatchPaths(k) :
                 task[p].phase # "idle" =>
                   \A q \in BatchPaths(j) : task[q].phase = "settled")
  /\ [][\A p \in DOMAIN task :
          p \in DOMAIN task' /\ Len(task'[p].starts) > Len(task[p].starts) =>
            /\ batchIdx \in DOMAIN batches
            /\ p \in BatchPaths(batchIdx)
            /\ \A j \in 1..(batchIdx - 1) :
                  \A q \in BatchPaths(j) : task[q].phase = "settled"]_vars

\* C13 witness: an attempt of a file of the second batch is in flight after
\* a file of the first batch went through a retry and another failed for
\* good.
C13_Witness ==
  /\ pc = "awaitBatch"
  /\ batchIdx = 2
  /\ \E p \in BatchPaths(2) : task[p].phase = "analyzing"
  /\ \E q \in BatchPaths(1) : task[q].retryCount > 0
  /\ \E q \in BatchPaths(1) : task[q].value = "failure"

(***************************************************************************)
(* The Semaphore class on its own: callers acquire and release in any      *)
(* order, a caller releasing only a permit it holds.                       *)
(***************************************************************************)
SemCallers == { PathOf(i) : i \in 1..MaxCallers }

SemInit ==
  /\ pc = "sem"
  /\ \E permits \in 0..MaxLimit : semaphore = NewSemaphore(permits)
  /\ task = [p \in SemCallers |-> IdleTask]
  /\ projectTree = DirNode("root", << >>)
  /\ options = [concurrentLimit |-> semaphore.permits]
  /\ fileQueue = << >>
  /\ batches = << >>
  /\ batchIdx = 1
  /\ processedCount = 0
  /\ failedCount = 0
  /\ analysisResults = << >>
  /\ performanceMetrics = NoMetrics
  /\ collected = NoCollected
  /\ inputFiles = << >>
  /\ batchResult = NoBatchResult
  /\ tracker = NoTracker
  /\ priorities = << >>
  /\ scanner = NoScanner
  /\ watcher = NoWatcher

\* caller p calls acquire()
SemCallAcquire(p) ==
  /\ pc = "sem"
  /\ task[p].phase = "idle"
  /\ task[p].acq < MaxRounds
  /\ LET st == SemAcquire([sem |-> semaphore, task |-> task], p)
     IN /\ semaphore' = st.sem
        /\ task' = st.task
  /\ UNCHANGED << projectTree, options, pc, fileQueue, batches, batchIdx,
                  processedCount, failedCount, analysisResults,
                  performanceMetrics, collected, inputFiles, batchResult,
                  tracker, priorities,
                  scanner, watcher >>

\* caller p, holding a permit, calls release()
SemCallRelease(p) ==
  /\ pc = "sem"
  /\ task[p].phase = "granted"
  /\ LET st == SemRelease([sem |-> semaphore,
                           task |-> [task EXCEPT ![p].phase = "idle"]], p)
     IN /\ semaphore' = st.sem
        /\ task' = st.task
  /\ UNCHANGED << projectTree, options, pc, fileQueue, batches, batchIdx,
                  processedCount, failedCount, analysisResults,
                  performanceMetrics, collected, inputFiles, batchResult,
                  tracker, priorities,
                  scanner, watcher >>

SemNext ==
  \/ \E p \in DOMAIN task : SemCallAcquire(p)
  \/ \E p \in DOMAIN task : SemCallRelease(p)

SemSpec == SemInit /\ [][SemNext]_vars

\* t is s, or s with one more caller at its end
SameOrAppended(s, t) ==
  \/ t = s
  \/ Len(t) = Len(s) + 1 /\ SubSeq(t, 1, Len(s)) = s

\* C14: semaphore waiters are served first in, first out: callers wait
\* only while no permit is free; whenever a caller that was waiting gets a
\* permit, it is the one at the head of the queue, the one that has waited
\* longest; and the queue is never reordered, so a caller that calls
\* acquire() later, queued behind the waiting ones, never gets a permit
\* ahead of a caller that still waits.
C14_WaitersServedFifo ==
  /\ [] (semaphore.waiting # << >> => semaphore.permits = 0)
  /\ [][/\ \A p \in DOMAIN task :
             task'[p].acq > task[p].acq /\ semaphore.waiting # << >> =>
               /\ p = Head(semaphore.waiting)
               /\ SameOrAppended(Tail(semaphore.waiting), semaphore.waiting')
        /\ (\A p \in DOMAIN task : task'[p].acq = task[p].acq) =>
               SameOrAppended(semaphore.waiting, semaphore.waiting')]_vars

\* C14 witness: two callers wait, the earlier one at the head, while a
\* third holds the only permit for the second time.
C14_Witness ==
  /\ pc = "sem"
  /\ Len(semaphore.waiting) >= 2
  /\ \E p \in DOMAIN task : task[p].phase = "granted" /\ task[p].rel >= 1
  /\ \E p \in DOMAIN task : task[p].phase = "waiting" /\ task[p].acq >= 1

\* C15: a run started with concurrentLimit < 1 fails with a setup error
\* before any work starts: it is never past its start except in the Failed
\* state, no file is collected or batched, no call for a file is dispatched,
\* and it never sits in the batch loop with every call waiting for a permit.
C15_InvalidLimitFailsAtSetup ==
  ConcurrentLimit < 1 =>
    /\ pc \in {"idle", "failed"}
    /\ fileQueue = << >>
    /\ batches = << >>
    /\ \A p \in DOMAIN task : task[p].phase = "idle"
    /\ ~ (pc = "awaitBatch" /\ Unsettled # {} /\ Unsettled = Waiting)

(***************************************************************************)
(* PerformanceTracker, performance-tracker.ts.  tracker.objs is the heap   *)
(* of PerformanceMetrics objects; tracker.metrics is the object            *)
(* this.metrics refers to; tracker.returned lists, per object handed to    *)
(* the caller, the call that returned it, the object, what it held when    *)
(* it was returned, and the object the first finish() before it had        *)
(* produced (0 when the tracker was not finished); tracker.warnings are    *)
(* the messages given to logger.warn; tracker.now is Date.now().  A time   *)
(* per file is the exact quotient [num, den].  memoryUsage is left out.    *)
(***************************************************************************)
RECURSIVE Gcd(_, _)
Gcd(a, b) == IF b = 0 THEN a ELSE Gcd(b, a % b)

Ratio(n, d) ==
  IF n = 0 THEN [num |-> 0, den |-> 1]
  ELSE [num |-> n \div Gcd(n, d), den |-> d \div Gcd(n, d)]

NewMetrics(startTime) ==
  [totalFiles |-> 0, processedFiles |-> 0, failedFiles |-> 0,
   skippedFiles |-> 0, totalSize |-> 0,
   averageProcessingTime |-> Ratio(0, 1), startTime |-> startTime,
   endTime |-> Undef]

\* constructor, at time now
NewTracker(now) ==
  [objs |-> << NewMetrics(now) >>, metrics |-> 1, startTime |-> now,
   isFinished |-> FALSE, now |-> now, returned |-> << >>, first |-> 0,
   warnings |-> << >>, calls |-> 0]

Metrics(t) == t.objs[t.metrics]

GetTotalProcessedFiles(t) ==
  Metrics(t).processedFiles + Metrics(t).failedFiles + Metrics(t).skippedFiles

\* getElapsedTime() is (Date.now() - startTime) / 1000 seconds, and
\* getAverageProcessingTime() is elapsed / total, or 0
GetAverageProcessingTime(t) ==
  IF GetTotalProcessedFiles(t) > 0
  THEN Ratio(t.now - t.startTime, 1000 * GetTotalProcessedFiles(t))
  ELSE Ratio(0, 1)

\* Mutant of UpdateFileStats: no isFinished guard.
UpdateFileStatsUnguarded(t, processed, failed, skipped, totalSize) ==
  [t EXCEPT !.objs[t.metrics] =
     [@ EXCEPT !.processedFiles = @ + DefaultIfAbsent(processed, 0),
               !.failedFiles = @ + DefaultIfAbsent(failed, 0),
               !.skippedFiles = @ + DefaultIfAbsent(skipped, 0),
               !.totalSize = @ + DefaultIfAbsent(totalSize, 0)]]

UpdateFileStats(t, processed, failed, skipped, totalSize) ==
  IF t.isFinished
  THEN [t EXCEPT !.warnings = Append(@, "cannot update stats")]
  ELSE [t EXCEPT !.objs[t.metrics] =
          [@ EXCEPT !.processedFiles = @ + DefaultIfAbsent(processed, 0),
                    !.failedFiles = @ + DefaultIfAbsent(failed, 0),
                    !.skippedFiles = @ + DefaultIfAbsent(skipped, 0),
                    !.totalSize = @ + DefaultIfAbsent(totalSize, 0)]]

SetTotalFiles(t, totalFiles) ==
  IF t.isFinished
  THEN [t EXCEPT !.warnings = Append(@, "cannot set total files")]
  ELSE [t EXCEPT !.objs[t.metrics].totalFiles = totalFiles]

\* finish(): [t, ref], the tracker afterwards and the object returned
Finish(t) ==
  IF t.isFinished
  THEN [t |-> [t EXCEPT !.warnings = Append(@, "already finished")],
        ref |-> t.metrics]
  ELSE LET stamped == [t EXCEPT !.isFinished = TRUE,
                                !.objs[t.metrics].endTime = t.now]
           averaged == [stamped EXCEPT !.objs[t.metrics].averageProcessingTime =
                                          GetAverageProcessingTime(stamped)]
           copy == Len(t.objs) + 1
       IN [t |-> [averaged EXCEPT !.objs = Append(@, Metrics(averaged)),
                                  !.first = copy],
           ref |-> copy]

\* getSnapshot(): [t, ref]
GetSnapshot(t) ==
  [t |-> [t EXCEPT !.objs = Append(@, [Metrics(t) EXCEPT
                       !.averageProcessingTime = GetAverageProcessingTime(t)])],
   ref |-> Len(t.objs) + 1]

\* reset()
Reset(t) ==
  [t EXCEPT !.startTime = t.now, !.isFinished = FALSE,
            !.objs = Append(@, NewMetrics(t.now)),
            !.metrics = Len(t.objs) + 1,
            !.first = 0]

Handed(t, op, ref, first) ==
  [t EXCEPT !.returned = Append(@, [op |-> op, ref |-> ref,
                                    seen |-> t.objs[ref], first |-> first])]

TrackerOnly ==
  /\ pc = "tracker"
  /\ UNCHANGED << projectTree, options, pc, fileQueue, batches, batchIdx,
                  semaphore, task, processedCount, failedCount,
                  analysisResults, performanceMetrics, collected, inputFiles,
                  batchResult, priorities,
                  scanner, watcher >>

\* arguments of updateFileStats: an argument left out is Undef
UpdateArgs == { << 1, 1, Undef, 512 >>, << -2, Undef, 1, -512 >> }

\* one more call that returns nothing
Called(t) == [t EXCEPT !.calls = @ + 1]

TrackerUpdate ==
  /\ TrackerOnly
  /\ tracker.calls < MaxCalls
  /\ \E a \in UpdateArgs :
        tracker' = Called(UpdateFileStats(tracker, a[1], a[2], a[3], a[4]))

TrackerSetTotal ==
  /\ TrackerOnly
  /\ tracker.calls < MaxCalls
  /\ tracker' = Called(SetTotalFiles(tracker, 3))

TrackerFinish ==
  /\ TrackerOnly
  /\ Len(tracker.returned) < MaxReturned
  /\ LET r == Finish(tracker)
     IN tracker' = Handed(r.t, "finish", r.ref, tracker.first)

TrackerGetSnapshot ==
  /\ TrackerOnly
  /\ Len(tracker.returned) < MaxReturned
  /\ LET r == GetSnapshot(tracker)
     IN tracker' = Handed(r.t, "getSnapshot", r.ref, tracker.first)

\* printReport(true): finish(), then the report is logged
TrackerPrintReport ==
  /\ TrackerOnly
  /\ tracker.calls < MaxCalls
  /\ tracker' = Called(Finish(tracker).t)

TrackerReset ==
  /\ TrackerOnly
  /\ tracker.calls < MaxCalls
  /\ tracker' = Called(Reset(tracker))

\* a millisecond passes
TrackerTick ==
  /\ TrackerOnly
  /\ tracker.now < MaxClock
  /\ tracker' = [tracker EXCEPT !.now = @ + 1]

TrackerInit ==
  /\ pc = "tracker"
  /\ tracker = NewTracker(0)
  /\ priorities = << >>
  /\ scanner = NoScanner
  /\ watcher = NoWatcher
  /\ projectTree = DirNode("root", << >>)
  /\ options = [enablePerformanceMonitoring |-> TRUE]
  /\ fileQueue = << >>
  /\ batches = << >>
  /\ batchIdx = 1
  /\ semaphore = NewSemaphore(0)
  /\ task = << >>
  /\ processedCount = 0
  /\ failedCount = 0
  /\ analysisResults = << >>
  /\ performanceMetrics = NoMetrics
  /\ collected = NoCollected
  /\ inputFiles = << >>
  /\ batchResult = NoBatchResult

TrackerNext ==
  \/ TrackerUpdate
  \/ TrackerSetTotal
  \/ TrackerFinish
  \/ TrackerGetSnapshot
  \/ TrackerPrintReport
  \/ TrackerReset
  \/ TrackerTick

TrackerSpec == TrackerInit /\ [][TrackerNext]_vars

\* the counters and endTime of a PerformanceMetrics object
Counters(m) ==
  << m.totalFiles, m.processedFiles, m.failedFiles, m.skippedFiles,
     m.totalSize, m.endTime >>

Warned(msg) == \E i \in DOMAIN tracker.warnings : tracker.warnings[i] = msg

\* C16: after finish(), every later call on the tracker short of reset(),
\* updateFileStats and setTotalFiles with any arguments among them, leaves
\* totalFiles, processedFiles, failedFiles, skippedFiles, totalSize and
\* endTime of the tracker's metrics unchanged.
C16_FrozenAfterFinish ==
  [][tracker.isFinished /\ tracker'.isFinished
       /\ tracker'.metrics = tracker.metrics =>
         Counters(Metrics(tracker')) = Counters(Metrics(tracker))]_vars

\* C16 witness: a tracker that had counted a file was finished, and both
\* updateFileStats and setTotalFiles were called on it afterwards.
C16_Witness ==
  /\ pc = "tracker"
  /\ tracker.isFinished
  /\ Metrics(tracker).processedFiles > 0
  /\ Metrics(tracker).endTime # Undef
  /\ Warned("cannot update stats")
  /\ Warned("cannot set total files")

\* C17: between construction (or reset()) and finish(), whatever
\* updateFileStats is called with, processedFiles, failedFiles, skippedFiles
\* and totalSize never decrease.
C17_CountersNeverDecrease ==
  [][~ tracker.isFinished /\ ~ tracker'.isFinished
       /\ tracker'.metrics = tracker.metrics =>
         /\ Metrics(tracker').processedFiles >= Metrics(tracker).processedFiles
         /\ Metrics(tracker').failedFiles >= Metrics(tracker).failedFiles
         /\ Metrics(tracker').skippedFiles >= Metrics(tracker).skippedFiles
         /\ Metrics(tracker').totalSize >= Metrics(tracker).totalSize]_vars

\* what a returned object reports
Report(m) == << Counters(m), m.averageProcessingTime >>

\* C18: finish() freezes the tracker and returns an immutable snapshot:
\* every object returned by finish() or getSnapshot() after the first
\* finish() and before reset() reports the counters, endTime and
\* averageProcessingTime that the first finish() reported, and every
\* object that was returned still holds what it held when it was returned,
\* whatever was called on the tracker since.
C18_FinishReturnsFrozenSnapshot ==
  pc = "tracker" =>
    \A i \in DOMAIN tracker.returned :
       LET r == tracker.returned[i]
       IN /\ tracker.objs[r.ref] = r.seen
          /\ r.first # 0 => Report(r.seen) = Report(tracker.objs[r.first])

(***************************************************************************)
(* The two calculateFilePriority functions applied to a file node.         *)
(***************************************************************************)
ScoreNames ==
  { [name |-> "index.ts", extension |-> ".ts"],
    [name |-> "main.mjs", extension |-> ".mjs"],
    [name |-> "style.css", extension |-> ".css"],
    [name |-> "types.d.ts", extension |-> ".d.ts"],
    [name |-> "README.md", extension |-> ".md"],
    [name |-> "Makefile", extension |-> ""],
    [name |-> "util.test.ts", extension |-> ".ts"],
    [name |-> "util.spec.ts", extension |-> ".ts"],
    [name |-> "flow.e2e.ts", extension |-> ".ts"],
    [name |-> "flow.e2e.test.ts", extension |-> ".ts"],
    [name |-> "flow.cy.ts", extension |-> ".ts"] }

ScoreSizes ==
  { Undef, 0, 1, SMALL_LIMIT - 1, SMALL_LIMIT, MEDIUM_LIMIT - 1, MEDIUM_LIMIT }

ScoreInit ==
  /\ pc = "score"
  /\ \E k \in ScoreNames : \E size \in ScoreSizes :
        inputFiles = << FileNode(PathOf(1), k.name, k.extension, size) >>
  /\ priorities = << >>
  /\ scanner = NoScanner
  /\ watcher = NoWatcher
  /\ projectTree = DirNode("root", << >>)
  /\ options = [verbose |-> FALSE]
  /\ fileQueue = << >>
  /\ batches = << >>
  /\ batchIdx = 1
  /\ semaphore = NewSemaphore(0)
  /\ task = << >>
  /\ processedCount = 0
  /\ failedCount = 0
  /\ analysisResults = << >>
  /\ performanceMetrics = NoMetrics
  /\ collected = NoCollected
  /\ batchResult = NoBatchResult
  /\ tracker = NoTracker

DoScore ==
  /\ pc = "score"
  /\ priorities' =
       [i \in DOMAIN inputFiles |->
          [files |-> CalculateFilePriority(inputFiles[i]),
           pipeline |-> PipelinePriority(inputFiles[i])]]
  /\ pc' = "scored"
  /\ UNCHANGED << projectTree, options, fileQueue, batches, batchIdx,
                  semaphore, task, processedCount, failedCount,
                  analysisResults, performanceMetrics, collected, inputFiles,
                  batchResult, tracker,
                  scanner, watcher >>

ScoreSpec == ScoreInit /\ [][DoScore]_vars

\* the score the claim gives a node whose core-code extensions are codeExts
ClaimedScore(node, codeExts) ==
  (IF node.extension \in codeExts THEN 100 ELSE 0)
  + (IF node.size < SMALL_LIMIT THEN 50
     ELSE IF node.size < MEDIUM_LIMIT THEN 25
     ELSE 0)
  - (IF NameIncludes(node.name, ".e2e.") \/ NameIncludes(node.name, ".cy.")
     THEN 30
     ELSE IF NameIncludes(node.name, ".test.")
             \/ NameIncludes(node.name, ".spec.")
     THEN 20
     ELSE 0)

\* C19: for every file node with a size, the priority score is (100 if the
\* extension is a core-code extension, else 0) + (50 if size < 10 KiB, 25
\* if size < 50 KiB, else 0) - (30 if the name has an end-to-end marker, 20
\* if it has another test marker, else 0), for calculateFilePriority of
\* files.ts and for the one of the pipeline, each with its own table of
\* core-code extensions: size 0 gets the +50, no other extension class
\* adds to the score.
C19_PriorityScoreFormula ==
  pc = "scored" =>
    \A i \in DOMAIN inputFiles :
       inputFiles[i].size # Undef =>
         /\ priorities[i].files =
              ClaimedScore(inputFiles[i], WEIGHT_CODE_EXTENSIONS)
         /\ priorities[i].pipeline =
              ClaimedScore(inputFiles[i], AI_CODE_EXTENSIONS)

\* the place of a file node in the depth-first traversal of the tree
TraversalIndex(node) ==
  CHOOSE k \in DOMAIN FileNodes : FileNodes[k].path = node.path

\* C20: the list returned by collection is sorted by priority score,
\* highest first, and stably: two files with equal score are in the order
\* in which the depth-first traversal of the tree meets them.
C20_SortedDescStable ==
  pc = "collected" =>
    \A i, j \in DOMAIN collected.files :
       i < j =>
         LET a == collected.files[i]
             b == collected.files[j]
         IN /\ CalculateFilePriority(a) >= CalculateFilePriority(b)
            /\ CalculateFilePriority(a) = CalculateFilePriority(b) =>
                 TraversalIndex(a) < TraversalIndex(b)

\* C20 witness: three files were collected, the sort moved a file ahead of
\* one met earlier, and two files of equal score, different names, kept
\* their traversal order.
C20_Witness ==
  /\ pc = "collected"
  /\ Len(collected.files) = 3
  /\ \E i, j \in DOMAIN collected.files :
        i < j /\ TraversalIndex(collected.files[i])
                  > TraversalIndex(collected.files[j])
  /\ \E i, j \in DOMAIN collected.files :
        /\ i < j
        /\ collected.files[i].name # collected.files[j].name
        /\ CalculateFilePriority(collected.files[i])
             = CalculateFilePriority(collected.files[j])

\* the analyze calls of the chain of path p that failed
FailedAttempts(p) ==
  task[p].retryCount + (IF task[p].value = "failure" THEN 1 ELSE 0)

\* the failed analyze calls of the chains of fileQueue[1..i]
RECURSIVE SumFailedAttempts(_)
SumFailedAttempts(i) ==
  IF i = 0 THEN 0
  ELSE FailedAttempts(fileQueue[i].path) + SumFailedAttempts(i - 1)

\* C21: the output of the pipeline does not depend on scheduling: when the
\* run has returned, the result array and the counters are functions of the
\* tree, the options and what the analyzer answered to each attempt of each
\* file: the results are those of the files in queue order, the files with
\* an empty outcome left out, and processedFiles and failedFiles are fixed
\* by the numbers of succeeded and failed attempts; the order in which the
\* calls of a batch completed appears nowhere.
C21_OutputIndependentOfScheduling ==
  pc = "done" =>
    /\ analysisResults = BatchResults(fileQueue)
    /\ performanceMetrics.failedFiles = SumFailedAttempts(Len(fileQueue))
    /\ performanceMetrics.processedFiles =
         Cardinality({ p \in DOMAIN task : task[p].value \in {"result", "empty"} })
         - SumFailedAttempts(Len(fileQueue))
    /\ performanceMetrics.totalFiles = Len(CollectFiles(projectTree))

\* C21 witness: with two calls running side by side, a run returned whose
\* first result is of a file that went through a retry and whose second is
\* of a file of the same batch that did not.
C21_Witness ==
  /\ pc = "done"
  /\ ConcurrentLimit >= 2
  /\ Len(analysisResults) >= 2
  /\ task[analysisResults[1].path].retryCount > 0
  /\ task[analysisResults[2].path].retryCount = 0
  /\ \E k \in DOMAIN batches :
        {analysisResults[1].path, analysisResults[2].path} \subseteq BatchPaths(k)

(***************************************************************************)
(* The pipeline on a tree of twelve files, ten small ones with a code      *)
(* extension and two above MAX_FILE_SIZE, with concurrentLimit 5,          *)
(* batchSize 10 and an analyzer that always returns a result.              *)
(***************************************************************************)
ScenarioPaths ==
  << "s01", "s02", "s03", "s04", "s05", "s06", "s07", "s08", "s09", "s10",
     "s11", "s12" >>

ScenarioTree(smallSize) ==
  DirNode("root",
          [i \in DOMAIN ScenarioPaths |->
             IF i \in {4, 9}
             THEN FileNode(ScenarioPaths[i], "bundle.js", ".js", 2 * MAX_FILE_SIZE)
             ELSE FileNode(ScenarioPaths[i], "index.ts", ".ts", smallSize)])

ScenarioInit ==
  /\ \E smallSize \in {512, 1024, SMALL_LIMIT - 1} :
        projectTree = ScenarioTree(smallSize)
  /\ options = [concurrentLimit |-> 5, batchSize |-> 10,
                maxRetries |-> Undef, retryDelay |-> Undef]
  /\ PipelineIdle

ScenarioNext ==
  \/ Setup
  \/ ProcessBatch
  \/ \E p \in DOMAIN task : AnalyzeStart(p)
  \/ \E p \in DOMAIN task : AnalyzeReturn(p, "result")
  \/ BatchSettled
  \/ DelayDone
  \/ Finalize

ScenarioSpec == ScenarioInit /\ [][ScenarioNext]_vars

\* C22: in the scenario of twelve files the run never has more than 5
\* analyze calls in flight, builds exactly 1 batch, and ends with
\* processed = 10 and skipped = 2.
C22_TwelveFileScenario ==
  /\ Cardinality(InFlight) <= 5
  /\ pc # "idle" => Len(batches) = 1
  /\ pc = "done" =>
        /\ performanceMetrics.processedFiles = 10
        /\ ReportedSkippedFiles = 2

\* the entries of the result array for path p
EntriesOf(p) ==
  { i \in DOMAIN analysisResults : analysisResults[i].path = p }

\* C23: an analyze call that returns without a result is an empty outcome,
\* not a failure: the step that records it counts the file as processed and
\* leaves the failure count alone; the file is settled and gets no further
\* attempt; and when the run has returned the result array has no entry for
\* it and exactly one entry for every other file.
C23_EmptyOutcomeNotFailure ==
  /\ [][\A p \in DOMAIN task :
          p \in DOMAIN task' /\ task[p].value # "empty"
            /\ task'[p].value = "empty" =>
              /\ processedCount' = processedCount + 1
              /\ failedCount' = failedCount]_vars
  /\ [] (\A p \in DOMAIN task :
            task[p].value = "empty" =>
              /\ task[p].phase = "settled"
              /\ Attempts(p) = task[p].retryCount + 1
              /\ EntriesOf(p) = {})
  /\ [] (pc = "done" =>
            \A p \in DOMAIN task :
               task[p].value # "empty" => Cardinality(EntriesOf(p)) = 1)

\* C23 witness: a run returned in which one file had an empty outcome on
\* its first attempt and another file produced a result.
C23_Witness ==
  /\ pc = "done"
  /\ ConcurrentLimit >= 1
  /\ \E p \in DOMAIN task : task[p].value = "empty" /\ task[p].retryCount = 0
  /\ \E p \in DOMAIN task : task[p].value = "result"
  /\ Len(analysisResults) < Len(fileQueue)

\* the permits a call chain holds: grants it got and has not released
PermitsHeld(p) == task[p].acq - task[p].rel

\* C24: a permit authorizes one analyze call in flight: in every state of a
\* run the number of permits taken from the semaphore is the number of
\* analyze calls in flight (a call just granted its permit counts as in
\* flight), no call chain holds more than one permit, and a chain that
\* sleeps in retry backoff or waits in acquire() holds none.
C24_PermitOnlyWhileInFlight ==
  ConcurrentLimit >= 1 /\ pc # "idle" =>
    /\ ConcurrentLimit - semaphore.permits =
         Cardinality({ p \in DOMAIN task :
                         task[p].phase \in {"granted", "analyzing"} })
    /\ \A p \in DOMAIN task :
          /\ PermitsHeld(p) <= 1
          /\ task[p].phase \in {"sleeping", "waiting"} => PermitsHeld(p) = 0


\* the count cap of a batch: batchSize, or the default when it is not given
ClaimedCountCap(batchSize) == DefaultIfAbsent(batchSize, BATCH_SIZE)

\* C25: for every input file list and every batchSize, 0 and undefined
\* included, every batch produced by the batch builder is non-empty and
\* holds at most batchSize files (at most the default 10 when batchSize is
\* not given); the same for the batches built inline by the pipeline.
C25_BatchesNonEmptyWithinCount ==
  pc = "batched" =>
    /\ \A i \in DOMAIN batchResult.batches :
          /\ Len(batchResult.batches[i]) >= 1
          /\ Len(batchResult.batches[i]) <= ClaimedCountCap(options.batchSize)
    /\ \A i \in DOMAIN batches :
          /\ Len(batches[i]) >= 1
          /\ Len(batches[i]) <= ClaimedCountCap(options.batchSize)


\* C26: Semaphore state invariant: after any sequence of acquire() and
\* release() calls in which release() is called only by a holder of a
\* granted permit, 0 <= permits <= the initial permit count, permits plus
\* the number of granted and not yet released acquires equals the initial
\* count, and the waiting queue is non-empty only when permits = 0.
C26_SemaphoreInvariant ==
  pc = "sem" =>
    /\ 0 <= semaphore.permits
    /\ semaphore.permits <= options.concurrentLimit
    /\ \A p \in DOMAIN task : PermitsHeld(p) \in {0, 1}
    /\ semaphore.permits
         + Cardinality({ p \in DOMAIN task : PermitsHeld(p) = 1 })
         = options.concurrentLimit
    /\ semaphore.waiting # << >> => semaphore.permits = 0

\* C26 witness: of two permits both are granted, one of them for the
\* second time to the same caller after a release, and a caller waits.
C26_Witness ==
  /\ pc = "sem"
  /\ options.concurrentLimit = 2
  /\ semaphore.permits = 0
  /\ Cardinality({ p \in DOMAIN task : PermitsHeld(p) = 1 }) = 2
  /\ \E p \in DOMAIN task : task[p].rel >= 1 /\ PermitsHeld(p) = 1
  /\ semaphore.waiting # << >>


(***************************************************************************)
(* OctoLensScanner.  scanner.call[c] is the scanProject() call c: not yet  *)
(* made ("idle"), refused by the isScanning test, awaiting                 *)
(* getProjectMetadata ("metadata"), awaiting analyzeFilesWithAI            *)
(* ("analysis"), resolved, or rejected by an error of the scan body.       *)
(***************************************************************************)
MaxScanCalls == 3

MaxResets == 2

ScanCalls == 1..MaxScanCalls

\* constructor
NewScanner ==
  [isScanning |-> FALSE,
   call |-> [c \in ScanCalls |-> [phase |-> "idle", enableAI |-> FALSE]],
   resets |-> 0]

\* the scan body of call c is executing
InScanBody(sc, c) == sc.call[c].phase \in {"metadata", "analysis"}

\* finally { this.isScanning = false } as call c leaves its body
LeaveScanBody(sc, c, phase) ==
  [sc EXCEPT !.isScanning = FALSE, !.call[c].phase = phase]

ScannerOnly ==
  /\ pc = "scanner"
  /\ UNCHANGED << projectTree, options, pc, fileQueue, batches, batchIdx,
                  semaphore, task, processedCount, failedCount,
                  analysisResults, performanceMetrics, collected, inputFiles,
                  batchResult, priorities, watcher >>

\* scanProject(overrides), up to its first await: valid says whether
\* validateConfig accepts the merged configuration
ScanProject(c) ==
  /\ ScannerOnly
  /\ scanner.call[c].phase = "idle"
  /\ \E valid \in BOOLEAN : \E enableAI \in BOOLEAN :
        scanner' =
          IF scanner.isScanning
          THEN [scanner EXCEPT !.call[c].phase = "refused"]
          ELSE IF ~valid
          THEN LeaveScanBody(scanner, c, "rejected")
          ELSE [scanner EXCEPT !.isScanning = TRUE,
                               !.call[c] = [phase |-> "metadata",
                                            enableAI |-> enableAI]]
  /\ UNCHANGED tracker

\* getProjectMetadata settles; the structure analysis, the collection and
\* the batching run without an await, and any of them may throw
MetadataSettled(c) ==
  /\ ScannerOnly
  /\ scanner.call[c].phase = "metadata"
  /\ \E ok \in BOOLEAN :
        scanner' =
          IF ~ok THEN LeaveScanBody(scanner, c, "rejected")
          ELSE IF scanner.call[c].enableAI
          THEN [scanner EXCEPT !.call[c].phase = "analysis"]
          ELSE LeaveScanBody(scanner, c, "resolved")
  /\ UNCHANGED tracker

\* analyzeFilesWithAI settles
AnalysisSettled(c) ==
  /\ ScannerOnly
  /\ scanner.call[c].phase = "analysis"
  /\ \E ok \in BOOLEAN :
        scanner' = LeaveScanBody(scanner, c,
                                 IF ok THEN "resolved" ELSE "rejected")
  /\ UNCHANGED tracker

\* reset()
ScannerReset ==
  /\ ScannerOnly
  /\ scanner.resets < MaxResets
  /\ scanner' = [scanner EXCEPT !.isScanning = FALSE, !.resets = @ + 1]
  /\ tracker' = Reset(tracker)

ScannerInit ==
  /\ pc = "scanner"
  /\ scanner = NewScanner
  /\ tracker = NewTracker(0)
  /\ watcher = NoWatcher
  /\ priorities = << >>
  /\ projectTree = DirNode("root", << >>)
  /\ options = [rootPath |-> "."]
  /\ fileQueue = << >>
  /\ batches = << >>
  /\ batchIdx = 1
  /\ semaphore = NewSemaphore(0)
  /\ task = << >>
  /\ processedCount = 0
  /\ failedCount = 0
  /\ analysisResults = << >>
  /\ performanceMetrics = NoMetrics
  /\ collected = NoCollected
  /\ inputFiles = << >>
  /\ batchResult = NoBatchResult

ScannerNext ==
  \/ \E c \in ScanCalls : ScanProject(c)
  \/ \E c \in ScanCalls : MetadataSettled(c)
  \/ \E c \in ScanCalls : AnalysisSettled(c)
  \/ ScannerReset

ScannerSpec == ScannerInit /\ [][ScannerNext]_vars

\* the scanProject() calls whose scan body is executing
ScansInBody == { c \in ScanCalls : InScanBody(scanner, c) }

\* C27: OctoLensScanner runs at most one scan at a time: for every
\* interleaving of scanProject() and reset() calls on one scanner, at most
\* one scan body is executing, isScanning is true exactly while a scan body
\* is executing (so it is false again after the scan ends by success or by
\* error), and a scanProject() call made while another is in progress
\* throws without starting work and without clearing isScanning.
C27_OneScanAtATime ==
  /\ [] (pc = "scanner" =>
           /\ Cardinality(ScansInBody) <= 1
           /\ scanner.isScanning <=> ScansInBody # {})
  /\ [][pc = "scanner" =>
          \A c \in ScanCalls :
             /\ scanner.call[c].phase = "idle"
             /\ scanner'.call[c].phase # "idle"
             /\ ScansInBody # {}
             => /\ scanner'.call[c].phase = "refused"
                /\ scanner'.isScanning = scanner.isScanning]_vars


(***************************************************************************)
(* ProjectWatcher.  watcher.timers is the set of pending setTimeout        *)
(* timers, each with the milliseconds left until it fires; debounceTimer   *)
(* is the id of the timer the field refers to, 0 for null (the field keeps *)
(* the id of a timer that has fired).  watcher.scans are the               *)
(* performIncrementalScan calls awaiting scanner.scan().  The remaining    *)
(* fields record the history: the calls made, the milliseconds since the   *)
(* last change, and which changes a scan start or a stop() came after.     *)
(***************************************************************************)
MaxTriggers == 2

MaxStarts == 1

MaxStops == 1

MaxUnitTicks == 2

\* setTimeout(..., 5000) of simulateFileWatching
SIMULATE_DELAY == 5000

\* this.config.debounceMs || 1000
DEBOUNCE_MS == 1000

\* debounceMs of the WatcherConfig
DebounceChoices == {Undef, 0, 1, 2}

\* constructor
NewWatcher ==
  [debounceTimer |-> 0, isScanning |-> FALSE, timers |-> {}, nextId |-> 1,
   scans |-> << >>, lastEvent |-> "none",
   triggers |-> 0, starts |-> 0, stops |-> 0, unitTicks |-> 0,
   sinceChange |-> 0, changes |-> 0, burstScans |-> 0, invoked |-> 0,
   scanStarts |-> 0, scannedUpTo |-> 0, stoppedUpTo |-> 0,
   stopped |-> FALSE]

Timer(id, kind, delay) == [id |-> id, kind |-> kind, remaining |-> delay]

\* clearTimeout(id): no effect on a timer that has fired
ClearTimeout(timers, id) == { t \in timers : t.id # id }

\* debounceScan()
DebounceScan(w) ==
  LET kept == IF w.debounceTimer # 0
              THEN ClearTimeout(w.timers, w.debounceTimer)
              ELSE w.timers
  IN [w EXCEPT !.timers = kept \cup
                  { Timer(w.nextId, "debounce",
                          OrDefault(options.debounceMs, DEBOUNCE_MS)) },
               !.debounceTimer = w.nextId,
               !.nextId = @ + 1]

\* handleFileChange(type, path)
HandleFileChange(w) ==
  DebounceScan([w EXCEPT !.lastEvent = "change", !.changes = @ + 1,
                         !.sinceChange = 0, !.burstScans = 0])

\* performIncrementalScan(), up to its await
PerformIncrementalScan(w) ==
  IF w.isScanning
  THEN [w EXCEPT !.invoked = @ + 1, !.burstScans = @ + 1]
  ELSE [w EXCEPT !.invoked = @ + 1, !.burstScans = @ + 1,
                 !.isScanning = TRUE,
                 !.scans = Append(@, [afterStop |-> w.stopped]),
                 !.scanStarts = @ + 1,
                 !.scannedUpTo = w.changes]

WatcherOnly ==
  /\ pc = "watcher"
  /\ UNCHANGED << projectTree, options, pc, fileQueue, batches, batchIdx,
                  semaphore, task, processedCount, failedCount,
                  analysisResults, performanceMetrics, collected, inputFiles,
                  batchResult, tracker, priorities, scanner >>

\* start(): simulateFileWatching emits 'ready' and sets its timer
WatcherStart ==
  /\ WatcherOnly
  /\ watcher.starts < MaxStarts
  /\ watcher' = [watcher EXCEPT
                   !.starts = @ + 1,
                   !.stopped = FALSE,
                   !.lastEvent = "ready",
                   !.timers = @ \cup { Timer(watcher.nextId, "simulate",
                                             SIMULATE_DELAY) },
                   !.nextId = @ + 1]

\* stop()
WatcherStop ==
  /\ WatcherOnly
  /\ watcher.stops < MaxStops
  /\ watcher' = [watcher EXCEPT
                   !.stops = @ + 1,
                   !.stopped = TRUE,
                   !.stoppedUpTo = watcher.changes,
                   !.timers = IF watcher.debounceTimer # 0
                              THEN ClearTimeout(@, watcher.debounceTimer)
                              ELSE @,
                   !.debounceTimer = 0]

\* triggerFileChange(type, path)
TriggerFileChange ==
  /\ WatcherOnly
  /\ watcher.triggers < MaxTriggers
  /\ watcher' = HandleFileChange([watcher EXCEPT !.triggers = @ + 1])

\* the timer of simulateFileWatching fires
SimulateTimerFire ==
  /\ WatcherOnly
  /\ \E t \in watcher.timers :
        /\ t.kind = "simulate"
        /\ t.remaining = 0
        /\ watcher' = HandleFileChange([watcher EXCEPT !.timers = @ \ {t}])

\* a timer of debounceScan fires
DebounceTimerFire ==
  /\ WatcherOnly
  /\ \E t \in watcher.timers :
        /\ t.kind = "debounce"
        /\ t.remaining = 0
        /\ watcher' =
             PerformIncrementalScan([watcher EXCEPT !.timers = @ \ {t}])

\* scanner.scan() of the i-th awaiting performIncrementalScan settles
ScanSettled(i) ==
  /\ WatcherOnly
  /\ i \in DOMAIN watcher.scans
  /\ \E ok \in BOOLEAN :
        watcher' = [watcher EXCEPT
                      !.lastEvent = IF ok THEN "scan-complete"
                                    ELSE "scan-error",
                      !.isScanning = FALSE,
                      !.scans = SubSeq(@, 1, i - 1)
                                  \o SubSeq(@, i + 1, Len(@))]

\* the milliseconds until the next pending timer fires
NextTimeout(w) ==
  CHOOSE d \in { t.remaining : t \in w.timers } :
     \A t \in w.timers : d <= t.remaining

\* d milliseconds pass: one, or all those until the next timer fires; no
\* pending timer is overdue
WatcherTick(d) ==
  /\ WatcherOnly
  /\ d >= 1
  /\ \A t \in watcher.timers : d <= t.remaining
  /\ \/ watcher.timers # {} /\ d = NextTimeout(watcher)
        /\ watcher' = [watcher EXCEPT
                         !.timers = { [t EXCEPT !.remaining = @ - d] :
                                        t \in watcher.timers },
                         !.sinceChange = Min(@ + d, SIMULATE_DELAY)]
     \/ d = 1 /\ watcher.unitTicks < MaxUnitTicks
        /\ watcher' = [watcher EXCEPT
                         !.unitTicks = @ + 1,
                         !.timers = { [t EXCEPT !.remaining = @ - d] :
                                        t \in watcher.timers },
                         !.sinceChange = Min(@ + d, SIMULATE_DELAY)]

WatcherInit ==
  /\ pc = "watcher"
  /\ options \in [debounceMs : DebounceChoices]
  /\ watcher = NewWatcher
  /\ scanner = NoScanner
  /\ tracker = NoTracker
  /\ priorities = << >>
  /\ projectTree = DirNode("root", << >>)
  /\ fileQueue = << >>
  /\ batches = << >>
  /\ batchIdx = 1
  /\ semaphore = NewSemaphore(0)
  /\ task = << >>
  /\ processedCount = 0
  /\ failedCount = 0
  /\ analysisResults = << >>
  /\ performanceMetrics = NoMetrics
  /\ collected = NoCollected
  /\ inputFiles = << >>
  /\ batchResult = NoBatchResult

TimePasses ==
  \E d \in {1} \cup { t.remaining : t \in watcher.timers } : WatcherTick(d)

AScanSettles == \E i \in 1..(MaxTriggers + MaxStarts) : ScanSettled(i)

WatcherNext ==
  \/ WatcherStart
  \/ WatcherStop
  \/ TriggerFileChange
  \/ SimulateTimerFire
  \/ DebounceTimerFire
  \/ AScanSettles
  \/ TimePasses

WatcherSpec == WatcherInit /\ [][WatcherNext]_vars

\* timers fire when they are due and scanner.scan() settles
WatcherFairSpec ==
  /\ WatcherSpec
  /\ WF_vars(TimePasses)
  /\ WF_vars(SimulateTimerFire)
  /\ WF_vars(DebounceTimerFire)
  /\ WF_vars(AScanSettles)


\* the pending timers set by debounceScan
PendingDebounceTimers == { t \in watcher.timers : t.kind = "debounce" }

\* the debounce interval of the watcher: debounceMs, 1000 when not given
ClaimedDebounce == DefaultIfAbsent(options.debounceMs, DEBOUNCE_MS)

\* C28: ProjectWatcher never runs two incremental scans at once, and file
\* changes arriving less than debounceMs apart are coalesced: for any
\* sequence of handleFileChange events at most one debounce timer is
\* pending at any time, and a burst of changes with gaps shorter than
\* debounceMs triggers at most one performIncrementalScan, which is called
\* debounceMs after the last change of the burst.
C28_DebouncedSingleScan ==
  /\ [] (pc = "watcher" =>
           /\ Len(watcher.scans) <= 1
           /\ Cardinality(PendingDebounceTimers) <= 1
           /\ watcher.burstScans <= 1)
  /\ [][pc = "watcher" /\ watcher'.invoked # watcher.invoked =>
          watcher.sinceChange = ClaimedDebounce]_vars

\* C29: after stop() has resolved, and until the watcher is started again,
\* no incremental scan is started, whatever the timing of stop() relative
\* to start(), to the pending timers and to later triggerFileChange calls,
\* so that no scan that awaits its result, and will emit 'scan-complete' or
\* 'scan-error', was started after the stop.
C29_NoScanAfterStop ==
  /\ [][pc = "watcher" /\ watcher.stopped =>
          watcher'.scanStarts = watcher.scanStarts]_vars
  /\ [] (pc = "watcher" =>
           \A i \in DOMAIN watcher.scans : ~ watcher.scans[i].afterStop)

\* a change was reported after the last start of a scan and after the last
\* stop()
ChangeNotScanned ==
  /\ pc = "watcher"
  /\ watcher.changes > watcher.scannedUpTo
  /\ watcher.changes > watcher.stoppedUpTo

\* C30: no file change is lost by ProjectWatcher: every handleFileChange
\* event that no stop() follows is eventually followed by an incremental
\* scan that starts after the change was reported, also when the change
\* arrives, and its debounce timer fires, while an earlier scan is still
\* running.
C30_NoChangeLost == ChangeNotScanned ~> ~ ChangeNotScanned

====
